---- MODULE Spec2Model ----
(***************************************************************************)
(* Work-item graph engine of proj_mgmt_server: the WorkItem store, the     *)
(* parent/child hierarchy, container/member relations, the dependency      *)
(* graph, rollup of status and progress, and the per-project key counter.  *)
(* Each request handler of app/api/work_items.py is one action; the        *)
(* validators and rollup functions of app/models/work_item.py and the key  *)
(* generator of app/models/project_new.py are operators.                   *)
(***************************************************************************)
EXTENDS Integers, Sequences, FiniteSets, TLC

\* ---------------------------------------------------------------- bounds
MaxItems == 3        \* work item ids ever allocated in the sequential specifications
MaxKey == 4          \* key numbers a project hands out before the model stops creating
NumCallers == 3      \* concurrent next_key callers
RaceItems == 2       \* work items present while two requests race
NumMembers == 3      \* candidate members seeded next to one container
NumRequests == 2     \* graph-mutating requests in flight at once
BlockedItems == 3    \* tasks present while is_blocked is read
ManualMembers == 2   \* candidate members next to a container whose rollup_mode is switched
DeleteTasks == 2     \* tasks next to one epic while work items are deleted
NestedTasks == 1     \* tasks under the epic that is itself a member of a feature
WalkItems == 3       \* work items of the stored graph a cycle check walks over
VisitCap == 3        \* the count of one work item's visits stops growing here
NumUsers == 2        \* users who create projects and are added to and removed from them

\* ------------------------------------------------------------- enumerations
WorkItemType == {"task", "epic", "feature", "story", "bug"}
WorkItemStatus == {"not_started", "in_progress", "blocked", "ready", "done", "cancelled"}
StoryKind == {"user", "engineering", "testing"}

None == 0            \* a null id (parent_id unset)
NoKind == "none"     \* story_kind unset
NoProgress == -1     \* progress_pct unset; set values are tenths of a percent

Projects == {"DEMO", "OTHER"}
ItemIds == 1..MaxItems

VARIABLES
    items,        \* work_items table: id -> row, for the rows that exist
    memberships,  \* work_item_memberships: set of <<container_id, member_id, relation>>
    deps,         \* work_item_deps: set of <<predecessor_id, successor_id>>
    counter,      \* project_counters: project -> next (0: no row yet)
    nextId,       \* the next fresh work item id (uuid4 never repeats)
    issued,       \* history: per project, the key numbers get_next_key_id returned, in order
    last,         \* history: the last request handled and how it ended
    kpc,          \* next_key callers: where each one is in get_next_key_id
    kread,        \* next_key callers: the counter value each one read
    kret,         \* next_key callers: the number each one returned (0: none yet)
    kinsert,      \* the caller holding an uncommitted INSERT of the counter row (0: none)
    req,          \* racing graph requests: each one's session state
    projectMembers, \* project_members: project -> its rows [user, role], oldest first
    walk          \* a cycle check in progress: the locals of its loop

vars == <<items, memberships, deps, counter, nextId, issued, last, kpc, kread, kret, kinsert, req,
          projectMembers, walk>>

dbVars == <<items, memberships, deps, counter, nextId, issued, last>>
keyVars == <<kpc, kread, kret, kinsert>>

\* No cycle check is running.
NoWalk ==
    [kind |-> "none", state |-> "idle", self |-> None, target |-> None, current |-> None,
     stack |-> <<>>, visited |-> {}, visits |-> <<>>, result |-> FALSE]

\* ------------------------------------------------------- project members
Roles == {"viewer", "member", "admin", "owner"}

\* The two projects as the work item routes find them: DEMO with one user of
\* each role (users 1 to 4), OTHER owned by user 5, who has no row in DEMO.
SeededMembers ==
    [p \in Projects |->
        IF p = "DEMO"
        THEN <<[user |-> 1, role |-> "owner"], [user |-> 2, role |-> "admin"],
               [user |-> 3, role |-> "member"], [user |-> 4, role |-> "viewer"]>>
        ELSE <<[user |-> 5, role |-> "owner"]>>]

\* ------------------------------------------------------------------ helpers
Exists(id) == id \in DOMAIN items

Put(f, id, row) == [x \in DOMAIN f \cup {id} |-> IF x = id THEN row ELSE f[x]]

RECURSIVE SetToSeq(_)
SetToSeq(S) ==
    IF S = {} THEN <<>>
    ELSE LET x == CHOOSE y \in S : \A z \in S : y <= z
         IN <<x>> \o SetToSeq(S \ {x})

RECURSIVE SumOver(_, _)
SumOver(S, f) ==
    IF S = {} THEN 0
    ELSE LET x == CHOOSE y \in S : TRUE
         IN f[x] + SumOver(S \ {x}, f)

Outcome(op, res) == [op |-> op, res |-> res]

\* ------------------------------------------------------------ key generator
\* Project.get_next_key_id, run by one request with nobody else in between:
\* the number returned and the counter row it commits.
NextKeyNumber(c) == IF c = 0 THEN 1 ELSE c

CounterAfterStuck(c) == NextKeyNumber(c)

CounterAfter(c) == NextKeyNumber(c) + 1

\* ---------------------------------------------------------- rollup engine
\* WorkItem.get_members: the work items joined through a membership row whose
\* container is c (a Query of one entity returns each row object once).
GetMembers(rows, mem, c) == {m \in DOMAIN rows : \E r \in WorkItemType : <<c, m, r>> \in mem}

CalculateRollupStatusAnyDone(rows, mem, c, self) ==
    LET members == GetMembers(rows, mem, c) IN
    IF members = {} THEN self.status
    ELSE IF \E m \in members : rows[m].status = "blocked" THEN "blocked"
    ELSE IF \E m \in members : rows[m].status = "in_progress" THEN "in_progress"
    ELSE IF \E m \in members : rows[m].status = "done" THEN "done"
    ELSE IF \E m \in members : rows[m].status = "ready" THEN "ready"
    ELSE "not_started"

\* WorkItem.calculate_rollup_status
CalculateRollupStatus(rows, mem, c, self) ==
    LET members == GetMembers(rows, mem, c) IN
    IF members = {} THEN self.status
    ELSE IF \E m \in members : rows[m].status = "blocked" THEN "blocked"
    ELSE IF \E m \in members : rows[m].status = "in_progress" THEN "in_progress"
    ELSE IF \A m \in members : rows[m].status = "done" THEN "done"
    ELSE IF \E m \in members : rows[m].status = "ready" THEN "ready"
    ELSE "not_started"

\* Python's round(x, 1) of total/n, total in tenths: to the nearest tenth, and a
\* tie that the float holds exactly (x.25, x.75) to the even tenth.
RoundTenths(total, n) ==
    LET q == total \div n
        r == total % n
    IN IF 2 * r > n THEN q + 1
       ELSE IF 2 * r < n THEN q
       ELSE IF q % 2 = 0 THEN q ELSE q + 1

\* member.progress_pct or 0.0
ProgressOrZero(p) == IF p = NoProgress THEN 0 ELSE p

CalculateRollupProgressTruncated(rows, mem, c, self) ==
    LET members == GetMembers(rows, mem, c) IN
    IF members = {} THEN ProgressOrZero(self.progress)
    ELSE SumOver(members, [m \in members |-> ProgressOrZero(rows[m].progress)])
             \div Cardinality(members)

\* WorkItem.calculate_rollup_progress
CalculateRollupProgress(rows, mem, c, self) ==
    LET members == GetMembers(rows, mem, c) IN
    IF members = {} THEN ProgressOrZero(self.progress)
    ELSE RoundTenths(SumOver(members, [m \in members |-> ProgressOrZero(rows[m].progress)]),
                     Cardinality(members))

CompletionDateNever(row) == [row EXCEPT !.completed = FALSE]

\* The completion-date rule both update_rollup_fields and update_work_item apply.
CompletionDate(row) ==
    IF row.status = "done" /\ ~row.completed THEN [row EXCEPT !.completed = TRUE]
    ELSE IF row.status # "done" THEN [row EXCEPT !.completed = FALSE]
    ELSE row

UpdateRollupFieldsAlways(rows, mem, c, self) ==
    LET s1 == [self EXCEPT !.status = CalculateRollupStatus(rows, mem, c, self)]
        s2 == [s1 EXCEPT !.progress = CalculateRollupProgress(rows, mem, c, s1)]
    IN CompletionDate(s2)

UpdateRollupFieldsStaleCompletion(rows, mem, c, self) ==
    IF ~self.rollup_mode THEN self
    ELSE LET s1 == [self EXCEPT !.status = CalculateRollupStatus(rows, mem, c, self)]
             s2 == [s1 EXCEPT !.progress = CalculateRollupProgress(rows, mem, c, s1)]
         IN [s2 EXCEPT !.completed = CompletionDate(self).completed]

\* WorkItem.update_rollup_fields on the session's copy `self` of row c
UpdateRollupFields(rows, mem, c, self) ==
    IF ~self.rollup_mode THEN self
    ELSE LET s1 == [self EXCEPT !.status = CalculateRollupStatus(rows, mem, c, self)]
             s2 == [s1 EXCEPT !.progress = CalculateRollupProgress(rows, mem, c, s1)]
         IN CompletionDate(s2)

\* ------------------------------------------------------ hierarchy validator
\* The parent_id each row shows to a session whose pending row of id `self` is
\* `row` (self = None: the pending row has no id yet, as in create_work_item).
ParentView(rows, self, row) ==
    [x \in DOMAIN rows |-> IF x = self THEN row.parent ELSE rows[x].parent]

\* WorkItem._would_create_cycle: the loop, from `current` with `visited`.
RECURSIVE ParentWalk(_, _, _)
ParentWalk(par, current, visited) ==
    IF current \notin DOMAIN par \/ par[current] = None THEN FALSE
    ELSE IF par[current] \in visited THEN TRUE
    ELSE ParentWalk(par, par[current], visited \cup {par[current]})

WouldCreateParentCycleBeforeAssign(rows, self, row) ==
    ParentWalk([x \in DOMAIN rows |-> rows[x].parent], row.parent, {})

WouldCreateParentCycle(rows, self, row) ==
    ParentWalk(ParentView(rows, self, row), row.parent, {})

ValidateParentChildRelationshipAnyType(rows, self, row) ==
    IF row.parent = None THEN "ok"
    ELSE IF row.parent \notin DOMAIN rows THEN "parent_not_found"
    ELSE IF self = row.parent THEN "self_parent"
    ELSE IF WouldCreateParentCycle(rows, self, row) THEN "parent_cycle"
    ELSE "ok"

\* WorkItem.validate_parent_child_relationship: "ok" or the error raised.
ValidateParentChildRelationship(rows, self, row) ==
    IF row.parent = None THEN "ok"
    ELSE IF row.parent \notin DOMAIN rows THEN "parent_not_found"
    ELSE IF row.type # "task" \/ rows[row.parent].type # "task" THEN "not_tasks"
    ELSE IF self = row.parent THEN "self_parent"
    ELSE IF WouldCreateParentCycle(rows, self, row) THEN "parent_cycle"
    ELSE "ok"

ValidateStoryKindRequiredOnly(row) ==
    IF row.type = "story" /\ row.story_kind = NoKind THEN "story_kind_required"
    ELSE "ok"

\* WorkItem.validate_story_kind
ValidateStoryKind(row) ==
    IF row.type = "story" /\ row.story_kind = NoKind THEN "story_kind_required"
    ELSE IF row.type # "story" /\ row.story_kind # NoKind THEN "story_kind_not_allowed"
    ELSE "ok"

\* The try block of create_work_item and update_work_item: the parent rule, then
\* the story-kind rule; the first error ends the request.
ValidateConstraints(rows, self, row) ==
    LET p == ValidateParentChildRelationship(rows, self, row) IN
    IF p # "ok" THEN p ELSE ValidateStoryKind(row)

\* ---------------------------------------------------- containment validator
ValidRelationshipsBugLikeEpic(containerType) ==
    CASE containerType = "epic" -> {"task", "story", "bug"}
      [] containerType = "feature" -> {"epic", "story", "task", "bug"}
      [] containerType = "story" -> {"task"}
      [] containerType = "bug" -> {"task", "story", "bug"}
      [] OTHER -> {}

\* valid_relationships of WorkItemMembership.validate_membership_rules
ValidRelationships(containerType) ==
    CASE containerType = "epic" -> {"task", "story", "bug"}
      [] containerType = "feature" -> {"epic", "story", "task", "bug"}
      [] containerType = "story" -> {"task"}
      [] containerType = "bug" -> {"task"}
      [] OTHER -> {}

ContainerTypes == {"epic", "feature", "story", "bug"}

\* WorkItemMembership.validate_membership_rules: "ok" or the error raised.
ValidateMembershipRules(rows, c, m) ==
    IF c \notin DOMAIN rows \/ m \notin DOMAIN rows THEN "not_found"
    ELSE IF c = m THEN "self_membership"
    ELSE IF rows[c].type \notin ContainerTypes THEN "not_a_container"
    ELSE IF rows[m].type \notin ValidRelationships(rows[c].type) THEN "cannot_contain"
    ELSE "ok"

\* ---------------------------------------------------------- dependency graph
\* current.successors: the rows of work_item_deps whose predecessor is `current`
Successors(edges, current) == {e[2] : e \in {d \in edges : d[1] = current}}

\* WorkItemDependency._would_create_cycle: the loop, with its stack and visited set.
RECURSIVE DepWalk(_, _, _, _)
DepWalk(edges, predecessor, stack, visited) ==
    IF stack = <<>> THEN FALSE
    ELSE LET current == stack[Len(stack)]
             rest == SubSeq(stack, 1, Len(stack) - 1)
         IN IF current = predecessor THEN TRUE
            ELSE IF current \in visited THEN DepWalk(edges, predecessor, rest, visited)
            ELSE DepWalk(edges, predecessor,
                         rest \o SetToSeq(Successors(edges, current)),
                         visited \cup {current})

WouldCreateDepCycleOneHop(edges, predecessor, successor) ==
    predecessor \in Successors(edges, successor)

WouldCreateDepCycle(edges, predecessor, successor) ==
    DepWalk(edges, predecessor, <<successor>>, {})

\* WorkItemDependency.validate_dependency_rules: "ok" or the error raised.
ValidateDependencyRules(rows, edges, predecessor, successor) ==
    IF predecessor \notin DOMAIN rows \/ successor \notin DOMAIN rows THEN "not_found"
    ELSE IF predecessor = successor THEN "self_dependency"
    ELSE IF WouldCreateDepCycle(edges, predecessor, successor) THEN "dep_cycle"
    ELSE "ok"

\* self.predecessors: the rows of work_item_deps whose successor is `self`
Predecessors(edges, self) == {d \in edges : d[2] = self}

IsBlockedUnlessClosed(rows, edges, self) ==
    \/ rows[self].status = "blocked"
    \/ \E dep \in Predecessors(edges, self) : rows[dep[1]].status \notin {"done", "cancelled"}

\* WorkItem.is_blocked
IsBlocked(rows, edges, self) ==
    \/ rows[self].status = "blocked"
    \/ \E dep \in Predecessors(edges, self) : rows[dep[1]].status # "done"

\* ------------------------------------------------------------ request bodies
\* data.get(key, default)
Get(data, key, default) == IF key \in DOMAIN data THEN data[key] ELSE default

\* The INSERT of a new row leaves out a column whose attribute is None, so the
\* column default (progress_pct: 0.0) is what gets stored.
InsertDefault(p) == IF p = NoProgress THEN 0 ELSE p

\* The WorkItem(...) built by create_work_item: completed_at is not among the
\* fields it passes, so the row starts with it null.
NewWorkItem(proj, n, data) ==
    [project |-> proj,
     key |-> n,
     type |-> data.type,
     status |-> Get(data, "status", "not_started"),
     parent |-> Get(data, "parent_id", None),
     story_kind |-> Get(data, "story_kind", NoKind),
     progress |-> InsertDefault(Get(data, "progress_pct", 0)),
     rollup_mode |-> Get(data, "rollup_mode", FALSE),
     completed |-> FALSE]

ApplyDataWithType(row, data) ==
    [row EXCEPT !.type = Get(data, "type", @),
                !.status = Get(data, "status", @),
                !.parent = Get(data, "parent_id", @),
                !.story_kind = Get(data, "story_kind", @),
                !.progress = Get(data, "progress_pct", @),
                !.rollup_mode = Get(data, "rollup_mode", @)]

\* The "if key in data" assignments of update_work_item: type, key_id, id and
\* project_id are not among the keys it looks at.
ApplyData(row, data) ==
    [row EXCEPT !.status = Get(data, "status", @),
                !.parent = Get(data, "parent_id", @),
                !.story_kind = Get(data, "story_kind", @),
                !.progress = Get(data, "progress_pct", @),
                !.rollup_mode = Get(data, "rollup_mode", @)]

\* ------------------------------------------------------------------ handlers
\* POST /projects/<id>/work-items. generate_work_item_key commits the counter
\* before the validators run; a 400 leaves that commit in place.
CreateWorkItem(proj, data) ==
    /\ nextId <= MaxItems
    /\ NextKeyNumber(counter[proj]) <= MaxKey
    /\ LET n == NextKeyNumber(counter[proj])
           row == NewWorkItem(proj, n, data)
           err == ValidateConstraints(items, None, row)
       IN /\ counter' = [counter EXCEPT ![proj] = CounterAfter(@)]
          /\ issued' = [issued EXCEPT ![proj] = Append(@, n)]
          /\ IF err = "ok"
             THEN /\ items' = Put(items, nextId, row)
                  /\ nextId' = nextId + 1
                  /\ last' = Outcome("create", "ok")
             ELSE /\ items' = items
                  /\ nextId' = nextId
                  /\ last' = Outcome("create", err)
    /\ UNCHANGED <<memberships, deps, keyVars, req, projectMembers, walk>>

UpdateWorkItemRollupFirst(id, data) ==
    /\ Exists(id)
    /\ LET row == ApplyData(UpdateRollupFields(items, memberships, id, items[id]), data)
           err == ValidateConstraints(items, id, row)
           final == CompletionDate(row)
       IN IF err = "ok"
          THEN /\ items' = [items EXCEPT ![id] = final]
               /\ last' = Outcome("update", "ok")
          ELSE /\ items' = items
               /\ last' = Outcome("update", err)
    /\ UNCHANGED <<memberships, deps, counter, nextId, issued, keyVars, req, projectMembers, walk>>

\* PUT /work-items/<id>
UpdateWorkItem(id, data) ==
    /\ Exists(id)
    /\ LET row == ApplyData(items[id], data)
           err == ValidateConstraints(items, id, row)
           final == CompletionDate(UpdateRollupFields(items, memberships, id, row))
       IN IF err = "ok"
          THEN /\ items' = [items EXCEPT ![id] = final]
               /\ last' = Outcome("update", "ok")
          ELSE /\ items' = items
               /\ last' = Outcome("update", err)
    /\ UNCHANGED <<memberships, deps, counter, nextId, issued, keyVars, req, projectMembers, walk>>

DeleteWorkItemOnlyRow(id) ==
    /\ Exists(id)
    /\ items' = [x \in DOMAIN items \ {id} |->
                    IF items[x].parent = id THEN [items[x] EXCEPT !.parent = None]
                    ELSE items[x]]
    /\ last' = Outcome("delete", "ok")
    /\ UNCHANGED <<memberships, deps, counter, nextId, issued, keyVars, req, projectMembers, walk>>

\* DELETE /work-items/<id>: the membership and dependency rows cascade; the
\* children relationship has no cascade, so the children's parent_id is nulled.
DeleteWorkItem(id) ==
    /\ Exists(id)
    /\ items' = [x \in DOMAIN items \ {id} |->
                    IF items[x].parent = id THEN [items[x] EXCEPT !.parent = None]
                    ELSE items[x]]
    /\ memberships' = {t \in memberships : t[1] # id /\ t[2] # id}
    /\ deps' = {d \in deps : d[1] # id /\ d[2] # id}
    /\ last' = Outcome("delete", "ok")
    /\ UNCHANGED <<counter, nextId, issued, keyVars, req, projectMembers, walk>>

InsertMembershipMerge(mem, row) == [ok |-> TRUE, mem |-> mem \cup {row}]

\* db.session.add(membership) and the flush that follows it (the autoflush of
\* get_members, or the commit): the INSERT of a row whose primary key
\* (container_id, member_id, relation) is already there raises, and the request
\* ends with nothing committed.
InsertMembership(mem, row) ==
    IF row \in mem THEN [ok |-> FALSE, mem |-> mem]
    ELSE [ok |-> TRUE, mem |-> mem \cup {row}]

AddWorkItemMemberStaleRollup(c, m, r) ==
    /\ Exists(c)
    /\ LET err == ValidateMembershipRules(items, c, m)
           ins == InsertMembership(memberships, <<c, m, r>>)
       IN IF err # "ok"
          THEN /\ UNCHANGED <<items, memberships>>
               /\ last' = Outcome("add_member", err)
          ELSE IF ~ins.ok
          THEN /\ UNCHANGED <<items, memberships>>
               /\ last' = Outcome("add_member", "conflict")
          ELSE /\ memberships' = ins.mem
               /\ items' = [items EXCEPT ![c] = UpdateRollupFields(items, memberships, c, @)]
               /\ last' = Outcome("add_member", "ok")
    /\ UNCHANGED <<deps, counter, nextId, issued, keyVars, req, projectMembers, walk>>

\* POST /work-items/<id>/members
AddWorkItemMember(c, m, r) ==
    /\ Exists(c)
    /\ LET err == ValidateMembershipRules(items, c, m)
           ins == InsertMembership(memberships, <<c, m, r>>)
       IN IF err # "ok"
          THEN /\ UNCHANGED <<items, memberships>>
               /\ last' = Outcome("add_member", err)
          ELSE IF ~ins.ok
          THEN /\ UNCHANGED <<items, memberships>>
               /\ last' = Outcome("add_member", "conflict")
          ELSE /\ memberships' = ins.mem
               /\ items' = [items EXCEPT ![c] = UpdateRollupFields(items, ins.mem, c, @)]
               /\ last' = Outcome("add_member", "ok")
    /\ UNCHANGED <<deps, counter, nextId, issued, keyVars, req, projectMembers, walk>>

\* DELETE /work-items/<id>/members/<member_id>: filter_by(container, member)
\* .first() is one row, r its relation, whichever the database returns first.
RemoveWorkItemMember(c, m, r) ==
    /\ Exists(c)
    /\ IF \E x \in WorkItemType : <<c, m, x>> \in memberships
       THEN /\ <<c, m, r>> \in memberships
            /\ memberships' = memberships \ {<<c, m, r>>}
            /\ items' = [items EXCEPT ![c] = UpdateRollupFields(items, memberships', c, @)]
            /\ last' = Outcome("remove_member", "ok")
       ELSE /\ UNCHANGED <<items, memberships>>
            /\ last' = Outcome("remove_member", "not_found")
    /\ UNCHANGED <<deps, counter, nextId, issued, keyVars, req, projectMembers, walk>>

\* POST /work-items/<id>/dependencies: <id> is the successor.
AddWorkItemDependency(successor, predecessor) ==
    /\ Exists(successor)
    /\ LET err == ValidateDependencyRules(items, deps, predecessor, successor)
       IN IF err # "ok"
          THEN /\ deps' = deps
               /\ last' = Outcome("add_dependency", err)
          ELSE IF <<predecessor, successor>> \in deps
          THEN /\ deps' = deps
               /\ last' = Outcome("add_dependency", "conflict")
          ELSE /\ deps' = deps \cup {<<predecessor, successor>>}
               /\ last' = Outcome("add_dependency", "ok")
    /\ UNCHANGED <<items, memberships, counter, nextId, issued, keyVars, req, projectMembers, walk>>

\* DELETE /work-items/<id>/dependencies/<predecessor_id>
RemoveWorkItemDependency(successor, predecessor) ==
    /\ Exists(successor)
    /\ IF <<predecessor, successor>> \in deps
       THEN /\ deps' = deps \ {<<predecessor, successor>>}
            /\ last' = Outcome("remove_dependency", "ok")
       ELSE /\ deps' = deps
            /\ last' = Outcome("remove_dependency", "not_found")
    /\ UNCHANGED <<items, memberships, counter, nextId, issued, keyVars, req, projectMembers, walk>>

\* GET /work-items/<id>: the dump evaluates the is_blocked property; the request
\* commits nothing.
GetWorkItem(id) ==
    /\ Exists(id)
    /\ last' = Outcome("get", IF IsBlocked(items, deps, id) THEN "is_blocked" ELSE "not_blocked")
    /\ UNCHANGED <<items, memberships, deps, counter, nextId, issued, keyVars, req, projectMembers, walk>>

UpdateWorkItemRollupCascade(id) ==
    /\ Exists(id)
    /\ LET own == [items EXCEPT ![id] = UpdateRollupFields(items, memberships, id, @)]
       IN items' = [x \in DOMAIN own |->
                       IF \E r \in WorkItemType : <<x, id, r>> \in memberships
                       THEN UpdateRollupFields(own, memberships, x, own[x])
                       ELSE own[x]]
    /\ last' = Outcome("rollup", "ok")
    /\ UNCHANGED <<memberships, deps, counter, nextId, issued, keyVars, req, projectMembers, walk>>

\* POST /work-items/<id>/rollup
UpdateWorkItemRollup(id) ==
    /\ Exists(id)
    /\ items' = [items EXCEPT ![id] = UpdateRollupFields(items, memberships, id, @)]
    /\ last' = Outcome("rollup", "ok")
    /\ UNCHANGED <<memberships, deps, counter, nextId, issued, keyVars, req, projectMembers, walk>>

\* ------------------------------------------------------------ authorization
\* role_hierarchy.get(role, 0)
RoleHierarchy(role) ==
    CASE role = "viewer" -> 1
      [] role = "member" -> 2
      [] role = "admin" -> 3
      [] role = "owner" -> 4
      [] OTHER -> 0

\* Project.is_member
IsMember(pm, proj, user) == \E i \in 1..Len(pm[proj]) : pm[proj][i].user = user

\* Project.get_member_role: the role of the first row of the user, if any
GetMemberRole(pm, proj, user) ==
    IF ~IsMember(pm, proj, user) THEN "none"
    ELSE LET i == CHOOSE j \in 1..Len(pm[proj]) :
                      /\ pm[proj][j].user = user
                      /\ \A k \in 1..(j - 1) : pm[proj][k].user # user
         IN pm[proj][i].role

\* Project.can_user_access; required_role "any" stands for None
CanUserAccess(pm, proj, user, required_role) ==
    IF ~IsMember(pm, proj, user) THEN FALSE
    ELSE IF required_role = "any" THEN TRUE
    ELSE RoleHierarchy(GetMemberRole(pm, proj, user)) >= RoleHierarchy(required_role)

\* The access check every route starts with: a 403 commits nothing.
WithAccess(user, proj, required_role, op, Handler) ==
    IF CanUserAccess(projectMembers, proj, user, required_role)
    THEN Handler
    ELSE /\ last' = Outcome(op, "denied")
         /\ UNCHANGED <<items, memberships, deps, counter, nextId, issued, keyVars, req,
                        projectMembers, walk>>

\* The work item routes as current_user `user` calls them.
AsCreateWorkItem(user, proj, data) ==
    /\ proj \in DOMAIN projectMembers
    /\ WithAccess(user, proj, "member", "create", CreateWorkItem(proj, data))

AsUpdateWorkItem(user, id, data) ==
    /\ Exists(id)
    /\ WithAccess(user, items[id].project, "member", "update", UpdateWorkItem(id, data))

AsDeleteWorkItem(user, id) ==
    /\ Exists(id)
    /\ WithAccess(user, items[id].project, "admin", "delete", DeleteWorkItem(id))

AsAddWorkItemMember(user, c, m, r) ==
    /\ Exists(c)
    /\ WithAccess(user, items[c].project, "member", "add_member", AddWorkItemMember(c, m, r))

AsAddWorkItemDependency(user, successor, predecessor) ==
    /\ Exists(successor)
    /\ WithAccess(user, items[successor].project, "member", "add_dependency",
                  AddWorkItemDependency(successor, predecessor))

AsUpdateWorkItemRollup(user, id) ==
    /\ Exists(id)
    /\ WithAccess(user, items[id].project, "member", "rollup", UpdateWorkItemRollup(id))

\* ------------------------------------------------- the empty database
NoRequest == [pc |-> "idle"]

IdleCallers ==
    /\ kpc = [p \in 1..NumCallers |-> "idle"]
    /\ kread = [p \in 1..NumCallers |-> 0]
    /\ kret = [p \in 1..NumCallers |-> 0]
    /\ kinsert = 0
    /\ req = [r \in 1..NumRequests |-> NoRequest]

Init ==
    /\ items = <<>>
    /\ memberships = {}
    /\ deps = {}
    /\ counter = [p \in Projects |-> 0]
    /\ nextId = 1
    /\ issued = [p \in Projects |-> <<>>]
    /\ last = Outcome("none", "ok")
    /\ IdleCallers
    /\ projectMembers = SeededMembers
    /\ walk = NoWalk

\* ------------------------------------- hierarchy, dependencies and keys
\* Request bodies of the graph specification: tasks and stories, with and
\* without story_kind, under every parent id (present, absent, dangling).
GraphCreateData ==
    {[type |-> t, parent_id |-> p] : t \in {"task"}, p \in 0..MaxItems}
    \cup {[type |-> "story", story_kind |-> "user", parent_id |-> p] : p \in {None, 1}}
    \cup {[type |-> "story"], [type |-> "task", story_kind |-> "user"]}

GraphUpdateData ==
    {[parent_id |-> p] : p \in 0..MaxItems}

Next ==
    \/ \E d \in GraphCreateData : CreateWorkItem("DEMO", d)
    \/ \E id \in ItemIds, d \in GraphUpdateData : UpdateWorkItem(id, d)
    \/ \E id \in ItemIds : DeleteWorkItem(id)

Spec == Init /\ [][Next]_vars

\* ------------------------------------------------------- dependency graph
DepsCreateData == {[type |-> "task"]}

NextDeps ==
    \/ \E d \in DepsCreateData : CreateWorkItem("DEMO", d)
    \/ \E id \in ItemIds : DeleteWorkItem(id)
    \/ \E s \in ItemIds, p \in 0..MaxItems : AddWorkItemDependency(s, p)
    \/ \E s \in ItemIds, p \in ItemIds : RemoveWorkItemDependency(s, p)

SpecDeps == Init /\ [][NextDeps]_vars


\* --------------------------------------------------- containment matrix
\* One work item of every type; relation_type is left to its default, the
\* container's own type.
MemberCreateData ==
    {[type |-> t] : t \in WorkItemType \ {"story"}}
    \cup {[type |-> "story", story_kind |-> "user"]}

DefaultRelation(c) == IF Exists(c) THEN items[c].type ELSE "task"

NextMember ==
    \/ \E d \in MemberCreateData : CreateWorkItem("DEMO", d)
    \/ \E c \in ItemIds, m \in ItemIds : AddWorkItemMember(c, m, DefaultRelation(c))
    \/ \E c \in ItemIds, m \in ItemIds : RemoveWorkItemMember(c, m, DefaultRelation(c))

SpecMember == Init /\ [][NextMember]_vars

\* ------------------------------------------------------------------ rollup
\* The database after create_work_item of one epic with rollup_mode (id 1, key
\* 1) and NumMembers tasks (ids and keys 2 ..), everything else at its default.
RollupIds == 1..(NumMembers + 1)

SeededRow(id) ==
    NewWorkItem("DEMO", id, IF id = 1 THEN [type |-> "epic", rollup_mode |-> TRUE]
                                      ELSE [type |-> "task"])

InitRollup ==
    /\ items = [id \in RollupIds |-> SeededRow(id)]
    /\ memberships = {}
    /\ deps = {}
    /\ counter = [p \in Projects |-> NumMembers + 2]
    /\ nextId = NumMembers + 2
    /\ issued = [p \in Projects |-> [i \in RollupIds |-> i]]
    /\ last = Outcome("create", "ok")
    /\ IdleCallers
    /\ projectMembers = SeededMembers
    /\ walk = NoWalk

RollupUpdateData == {[status |-> st] : st \in WorkItemStatus}

NextRollup ==
    \/ \E id \in RollupIds \ {1}, d \in RollupUpdateData : UpdateWorkItem(id, d)
    \/ \E m \in RollupIds \ {1} : AddWorkItemMember(1, m, "epic")
    \/ \E m \in RollupIds \ {1} : RemoveWorkItemMember(1, m, "epic")
    \/ UpdateWorkItemRollup(1)

SpecRollup == InitRollup /\ [][NextRollup]_vars

\* ------------------------------------------------- status and completion
StatusCreateData ==
    {[type |-> "task", status |-> st] : st \in {"not_started", "in_progress", "done"}}
    \cup {[type |-> "epic", rollup_mode |-> TRUE]}

StatusUpdateData == {[status |-> st] : st \in {"not_started", "in_progress", "done"}}

NextStatus ==
    \/ \E d \in StatusCreateData : CreateWorkItem("DEMO", d)
    \/ \E id \in ItemIds, d \in StatusUpdateData : UpdateWorkItem(id, d)
    \/ \E c \in ItemIds, m \in ItemIds : AddWorkItemMember(c, m, DefaultRelation(c))
    \/ \E c \in ItemIds, m \in ItemIds : RemoveWorkItemMember(c, m, DefaultRelation(c))
    \/ \E id \in ItemIds : UpdateWorkItemRollup(id)

SpecStatus == Init /\ [][NextStatus]_vars

\* ------------------------------------------- concurrent next_key callers
\* Each caller runs Project.get_next_key_id in a session of its own; the
\* database shows a session only what others have committed.  The steps are the
\* SELECT, the INSERT and flush of a missing row, the in-memory increment, and
\* the commit that writes it.
Callers == 1..NumCallers

\* ProjectCounter.query.filter_by(project_id).first()
KeyRead(p) ==
    /\ kpc[p] = "idle"
    /\ IF counter["DEMO"] = 0
       THEN /\ kpc' = [kpc EXCEPT ![p] = "insert"]
            /\ kread' = kread
       ELSE /\ kpc' = [kpc EXCEPT ![p] = "write"]
            /\ kread' = [kread EXCEPT ![p] = counter["DEMO"]]
    /\ UNCHANGED <<dbVars, kret, kinsert, req, projectMembers, walk>>

\* db.session.add(counter); db.session.flush(): the INSERT waits for another
\* session's uncommitted INSERT of the same primary key, and fails once a row
\* with that key is committed.
KeyInsert(p) ==
    /\ kpc[p] = "insert"
    /\ kinsert = 0
    /\ IF counter["DEMO"] # 0
       THEN /\ kpc' = [kpc EXCEPT ![p] = "failed"]
            /\ UNCHANGED <<kread, kinsert>>
       ELSE /\ kpc' = [kpc EXCEPT ![p] = "write"]
            /\ kread' = [kread EXCEPT ![p] = 1]
            /\ kinsert' = p
    /\ UNCHANGED <<dbVars, kret, req, projectMembers, walk>>

\* next_id = counter.next; counter.next += 1 (on the session's object)
KeyWrite(p) ==
    /\ kpc[p] = "write"
    /\ kpc' = [kpc EXCEPT ![p] = "commit"]
    /\ kret' = [kret EXCEPT ![p] = kread[p]]
    /\ UNCHANGED <<dbVars, kread, kinsert, req, projectMembers, walk>>

\* db.session.commit(); return next_id
KeyCommit(p) ==
    /\ kpc[p] = "commit"
    /\ counter' = [counter EXCEPT !["DEMO"] = CounterAfter(kread[p])]
    /\ issued' = [issued EXCEPT !["DEMO"] = Append(@, kret[p])]
    /\ kinsert' = IF kinsert = p THEN 0 ELSE kinsert
    /\ kpc' = [kpc EXCEPT ![p] = "done"]
    /\ UNCHANGED <<items, memberships, deps, nextId, last, kread, kret, req, projectMembers, walk>>

NextKey ==
    \/ \E p \in Callers : KeyRead(p)
    \/ \E p \in Callers : KeyInsert(p)
    \/ \E p \in Callers : KeyWrite(p)
    \/ \E p \in Callers : KeyCommit(p)

SpecKey == Init /\ [][NextKey]_vars

\* ------------------------------------------- concurrent create_work_item
InsertWorkItemNoUnique(rows, id, row) == [ok |-> TRUE, rows |-> Put(rows, id, row)]

\* db.session.add(work_item); db.session.commit(): key_id is a unique column, so
\* the INSERT of a row whose key_id is already stored raises and the request
\* ends with no work item committed.
InsertWorkItem(rows, id, row) ==
    IF \E x \in DOMAIN rows : rows[x].project = row.project /\ rows[x].key = row.key
    THEN [ok |-> FALSE, rows |-> rows]
    ELSE [ok |-> TRUE, rows |-> Put(rows, id, row)]

\* The rest of create_work_item for a caller whose generate_work_item_key has
\* returned: build the row (a task, which passes both validators), add, commit.
CreateCommit(p) ==
    /\ kpc[p] = "done"
    /\ LET ins == InsertWorkItem(items, nextId, NewWorkItem("DEMO", kret[p], [type |-> "task"]))
       IN IF ins.ok
          THEN /\ items' = ins.rows
               /\ nextId' = nextId + 1
               /\ kpc' = [kpc EXCEPT ![p] = "created"]
               /\ last' = Outcome("create", "ok")
          ELSE /\ UNCHANGED <<items, nextId>>
               /\ kpc' = [kpc EXCEPT ![p] = "conflict"]
               /\ last' = Outcome("create", "conflict")
    /\ UNCHANGED <<memberships, deps, counter, issued, kread, kret, kinsert, req, projectMembers, walk>>

NextKeyCreate ==
    \/ NextKey
    \/ \E p \in Callers : CreateCommit(p)

SpecKeyCreate == Init /\ [][NextKeyCreate]_vars

\* --------------------------------------------- racing graph mutations
\* The database after create_work_item of RaceItems tasks.  Each request
\* validates against what is committed (plus its own pending row) and commits
\* in a later step; nothing orders one request's commit against another's
\* validation.
RaceIds == 1..RaceItems

InitRace ==
    /\ items = [id \in RaceIds |-> NewWorkItem("DEMO", id, [type |-> "task"])]
    /\ memberships = {}
    /\ deps = {}
    /\ counter = [p \in Projects |-> RaceItems + 1]
    /\ nextId = RaceItems + 1
    /\ issued = [p \in Projects |-> [i \in RaceIds |-> i]]
    /\ last = Outcome("create", "ok")
    /\ IdleCallers
    /\ projectMembers = SeededMembers
    /\ walk = NoWalk

Requests == 1..NumRequests

\* add_work_item_dependency up to validate_dependency_rules
RaceValidateDependency(r, successor, predecessor) ==
    /\ req[r].pc = "idle"
    /\ Exists(successor)
    /\ LET err == ValidateDependencyRules(items, deps, predecessor, successor)
       IN IF err = "ok"
          THEN /\ req' = [req EXCEPT ![r] = [pc |-> "validated", kind |-> "dependency",
                                             a |-> predecessor, b |-> successor]]
               /\ last' = last
          ELSE /\ req' = req
               /\ last' = Outcome("add_dependency", err)
    /\ UNCHANGED <<items, memberships, deps, counter, nextId, issued, keyVars, projectMembers, walk>>

\* db.session.add(dependency); db.session.commit()
RaceCommitDependency(r) ==
    /\ req[r].pc = "validated"
    /\ req[r].kind = "dependency"
    /\ IF <<req[r].a, req[r].b>> \in deps
       THEN /\ deps' = deps
            /\ last' = Outcome("add_dependency", "conflict")
       ELSE /\ deps' = deps \cup {<<req[r].a, req[r].b>>}
            /\ last' = Outcome("add_dependency", "ok")
    /\ req' = [req EXCEPT ![r] = NoRequest]
    /\ UNCHANGED <<items, memberships, counter, nextId, issued, keyVars, projectMembers, walk>>

\* update_work_item with {parent_id: p}, up to the validators
RaceValidateParent(r, id, p) ==
    /\ req[r].pc = "idle"
    /\ Exists(id)
    /\ LET row == ApplyData(items[id], [parent_id |-> p])
           err == ValidateConstraints(items, id, row)
       IN IF err = "ok"
          THEN /\ req' = [req EXCEPT ![r] = [pc |-> "validated", kind |-> "parent",
                                             a |-> id, b |-> p]]
               /\ last' = last
          ELSE /\ req' = req
               /\ last' = Outcome("update", err)
    /\ UNCHANGED <<items, memberships, deps, counter, nextId, issued, keyVars, projectMembers, walk>>

\* The rest of update_work_item: the UPDATE carries the columns the session
\* changed, here parent_id (the rows are tasks without rollup_mode whose status
\* the request leaves alone).
RaceCommitParent(r) ==
    /\ req[r].pc = "validated"
    /\ req[r].kind = "parent"
    /\ items' = [items EXCEPT ![req[r].a].parent = req[r].b]
    /\ last' = Outcome("update", "ok")
    /\ req' = [req EXCEPT ![r] = NoRequest]
    /\ UNCHANGED <<memberships, deps, counter, nextId, issued, keyVars, projectMembers, walk>>

NextRace ==
    \/ \E r \in Requests, s \in RaceIds, p \in RaceIds : RaceValidateDependency(r, s, p)
    \/ \E r \in Requests : RaceCommitDependency(r)
    \/ \E r \in Requests, id \in RaceIds, p \in 0..RaceItems : RaceValidateParent(r, id, p)
    \/ \E r \in Requests : RaceCommitParent(r)

SpecRace == InitRace /\ [][NextRace]_vars

\* ------------------------------------------------------ field validation
\* Request bodies that exercise the field rules: story_kind present or not on
\* a story and on a task, progress_pct out of range (100.1), and an update that
\* carries a progress_pct in range (25.0) with the keys update_work_item does
\* not read.
FieldCreateData ==
    {[type |-> t] : t \in {"task", "story"}}
    \cup {[type |-> t, story_kind |-> "user"] : t \in {"task", "story"}}
    \cup {[type |-> "task", progress_pct |-> 1001]}

FieldUpdateData ==
    {[story_kind |-> k] : k \in {NoKind, "user"}}
    \cup {[progress_pct |-> 1001]}
    \cup {[type |-> "epic", key_id |-> 0, id |-> 0, project_id |-> "OTHER", progress_pct |-> 250]}

NextFields ==
    \/ \E d \in FieldCreateData : CreateWorkItem("DEMO", d)
    \/ \E id \in ItemIds, d \in FieldUpdateData : UpdateWorkItem(id, d)

SpecFields == Init /\ [][NextFields]_vars

\* ------------------------------------------------------------- is_blocked
\* The database after create_work_item of BlockedItems tasks; statuses and
\* dependency edges then change, and GET reads is_blocked.  The edges requested
\* here run from an older task to a newer one (cycle rejection has the
\* dependency specification to itself).
BlockedIds == 1..BlockedItems

InitBlocked ==
    /\ items = [id \in BlockedIds |-> NewWorkItem("DEMO", id, [type |-> "task"])]
    /\ memberships = {}
    /\ deps = {}
    /\ counter = [p \in Projects |-> BlockedItems + 1]
    /\ nextId = BlockedItems + 1
    /\ issued = [p \in Projects |-> [i \in BlockedIds |-> i]]
    /\ last = Outcome("create", "ok")
    /\ IdleCallers
    /\ projectMembers = SeededMembers
    /\ walk = NoWalk

BlockedUpdateData == {[status |-> st] : st \in {"not_started", "blocked", "done", "cancelled"}}

NextBlocked ==
    \/ \E id \in BlockedIds, d \in BlockedUpdateData : UpdateWorkItem(id, d)
    \/ \E s \in BlockedIds : \E p \in {q \in BlockedIds : q < s} : AddWorkItemDependency(s, p)
    \/ \E s \in BlockedIds : \E p \in {q \in BlockedIds : q < s} : RemoveWorkItemDependency(s, p)
    \/ \E id \in BlockedIds : GetWorkItem(id)

SpecBlocked == InitBlocked /\ [][NextBlocked]_vars

\* ------------------------------------------------------ rollup_mode switch
\* The database after create_work_item of one epic (id 1, rollup_mode false)
\* and ManualMembers tasks.  The epic's rollup_mode, status and progress_pct are
\* then set by hand, members come and go and change status, and the rollup is
\* recomputed.
ManualIds == 1..(ManualMembers + 1)

InitManual ==
    /\ items = [id \in ManualIds |->
                   NewWorkItem("DEMO", id, IF id = 1 THEN [type |-> "epic"] ELSE [type |-> "task"])]
    /\ memberships = {}
    /\ deps = {}
    /\ counter = [p \in Projects |-> ManualMembers + 2]
    /\ nextId = ManualMembers + 2
    /\ issued = [p \in Projects |-> [i \in ManualIds |-> i]]
    /\ last = Outcome("create", "ok")
    /\ IdleCallers
    /\ projectMembers = SeededMembers
    /\ walk = NoWalk

ManualContainerData ==
    {[rollup_mode |-> b] : b \in BOOLEAN}
    \cup {[progress_pct |-> p] : p \in {NoProgress, 400}}
    \cup {[status |-> "ready"]}
    \cup {[rollup_mode |-> TRUE, status |-> "ready", progress_pct |-> 400]}

ManualMemberData ==
    {[status |-> "in_progress"], [status |-> "done", progress_pct |-> 1000]}

NextManual ==
    \/ \E d \in ManualContainerData : UpdateWorkItem(1, d)
    \/ \E m \in ManualIds \ {1}, d \in ManualMemberData : UpdateWorkItem(m, d)
    \/ \E m \in ManualIds \ {1} : AddWorkItemMember(1, m, "epic")
    \/ \E m \in ManualIds \ {1} : RemoveWorkItemMember(1, m, "epic")
    \/ UpdateWorkItemRollup(1)

SpecManual == InitManual /\ [][NextManual]_vars

\* ---------------------------------------------------------------- deletion
\* The database after create_work_item of one epic (id 1) and DeleteTasks tasks.
\* Parents, memberships and dependency edges (requested from an older item to a
\* newer one) are set up among them and any of them is deleted.
DeleteIds == 1..(DeleteTasks + 1)

InitDelete ==
    /\ items = [id \in DeleteIds |->
                   NewWorkItem("DEMO", id, IF id = 1 THEN [type |-> "epic"] ELSE [type |-> "task"])]
    /\ memberships = {}
    /\ deps = {}
    /\ counter = [p \in Projects |-> DeleteTasks + 2]
    /\ nextId = DeleteTasks + 2
    /\ issued = [p \in Projects |-> [i \in DeleteIds |-> i]]
    /\ last = Outcome("create", "ok")
    /\ IdleCallers
    /\ projectMembers = SeededMembers
    /\ walk = NoWalk

DeleteUpdateData == {[parent_id |-> p] : p \in DeleteIds \ {1}}

NextDelete ==
    \/ \E id \in DeleteIds \ {1}, d \in DeleteUpdateData : UpdateWorkItem(id, d)
    \/ \E m \in DeleteIds \ {1} : AddWorkItemMember(1, m, "epic")
    \/ \E s \in DeleteIds : \E p \in {q \in DeleteIds : q < s} : AddWorkItemDependency(s, p)
    \/ \E id \in DeleteIds : DeleteWorkItem(id)

SpecDelete == InitDelete /\ [][NextDelete]_vars

\* ----------------------------------------------------------- two projects
\* Work items are created in either project; parents, memberships and
\* dependency edges (requested from an older item to a newer one) are then
\* asked for between any two of them.
CrossCreateData == {[type |-> "task"], [type |-> "epic"]}

CrossUpdateData == {[parent_id |-> p] : p \in ItemIds}

NextCross ==
    \/ \E proj \in Projects, d \in CrossCreateData : CreateWorkItem(proj, d)
    \/ \E id \in ItemIds, d \in CrossUpdateData : UpdateWorkItem(id, d)
    \/ \E c \in ItemIds, m \in ItemIds : AddWorkItemMember(c, m, DefaultRelation(c))
    \/ \E s \in ItemIds : \E p \in {q \in ItemIds : q < s} : AddWorkItemDependency(s, p)

SpecCross == Init /\ [][NextCross]_vars

\* ------------------------------------------------------ progress rollup
\* The seeded epic with rollup_mode and its candidate members; the members'
\* progress_pct is set to null, 25.0 or 100.0 (every mean of such values that
\* falls on a tie is a multiple of 0.25, which a float holds exactly).
ProgressUpdateData == {[progress_pct |-> p] : p \in {NoProgress, 250, 1000}}

NextProgress ==
    \/ \E id \in RollupIds \ {1}, d \in ProgressUpdateData : UpdateWorkItem(id, d)
    \/ \E m \in RollupIds \ {1} : AddWorkItemMember(1, m, "epic")
    \/ \E m \in RollupIds \ {1} : RemoveWorkItemMember(1, m, "epic")
    \/ UpdateWorkItemRollup(1)

SpecProgress == InitRollup /\ [][NextProgress]_vars

\* -------------------------------------------------------- access control
\* The seeded users call the work item routes on either project: tasks and
\* epics are created, put under the first item, linked (dependency edges
\* requested from an older item to a newer one), rolled up and deleted.
AccessUsers ==
    UNION {{SeededMembers[p][i].user : i \in 1..Len(SeededMembers[p])} : p \in Projects}

AccessCreateData == {[type |-> "task"], [type |-> "epic"]}

AccessUpdateData == {[parent_id |-> 1]}

NextAccess ==
    \/ \E u \in AccessUsers, proj \in Projects, d \in AccessCreateData : AsCreateWorkItem(u, proj, d)
    \/ \E u \in AccessUsers, id \in ItemIds, d \in AccessUpdateData : AsUpdateWorkItem(u, id, d)
    \/ \E u \in AccessUsers, id \in ItemIds : AsDeleteWorkItem(u, id)
    \/ \E u \in AccessUsers, c \in ItemIds, m \in ItemIds :
          AsAddWorkItemMember(u, c, m, DefaultRelation(c))
    \/ \E u \in AccessUsers, s \in ItemIds : \E p \in {q \in ItemIds : q < s} :
          AsAddWorkItemDependency(u, s, p)
    \/ \E u \in AccessUsers, id \in ItemIds : AsUpdateWorkItemRollup(u, id)

SpecAccess == Init /\ [][NextAccess]_vars

\* ------------------------------------------------------- nested containers
\* The database after create_work_item of one feature (id 1) and one epic
\* (id 2), both with rollup_mode, and NestedTasks tasks.  The epic joins and
\* leaves the feature, the tasks join and leave the epic, the epic and the
\* tasks are updated, and either rollup is recomputed.
NestedIds == 1..(NestedTasks + 2)

NestedRow(id) ==
    NewWorkItem("DEMO", id, CASE id = 1 -> [type |-> "feature", rollup_mode |-> TRUE]
                              [] id = 2 -> [type |-> "epic", rollup_mode |-> TRUE]
                              [] OTHER -> [type |-> "task"])

InitNested ==
    /\ items = [id \in NestedIds |-> NestedRow(id)]
    /\ memberships = {}
    /\ deps = {}
    /\ counter = [p \in Projects |-> NestedTasks + 3]
    /\ nextId = NestedTasks + 3
    /\ issued = [p \in Projects |-> [i \in NestedIds |-> i]]
    /\ last = Outcome("create", "ok")
    /\ IdleCallers
    /\ projectMembers = SeededMembers
    /\ walk = NoWalk

NestedUpdateData ==
    {[status |-> "in_progress"], [status |-> "done", progress_pct |-> 1000]}

NextNested ==
    \/ \E id \in NestedIds \ {1}, d \in NestedUpdateData : UpdateWorkItem(id, d)
    \/ \E c \in {1, 2} : \E m \in NestedIds \ {1, c} : AddWorkItemMember(c, m, DefaultRelation(c))
    \/ \E c \in {1, 2} : \E m \in NestedIds \ {1, c} : RemoveWorkItemMember(c, m, DefaultRelation(c))
    \/ \E c \in {1, 2} : UpdateWorkItemRollup(c)

SpecNested == InitNested /\ [][NextNested]_vars

\* ------------------------------------------------- cycle checks, step by step
\* The two _would_create_cycle loops, one iteration per step, over stored data
\* of any shape: the parent_id column and the work_item_deps table hold whatever
\* earlier requests (racing ones included) left there, cycles included.
WalkIds == 1..WalkItems

Visit(visits, x) ==
    [visits EXCEPT ![x] = IF @ < VisitCap THEN @ + 1 ELSE @]

\* validate_parent_child_relationship reaches self._would_create_cycle(parent):
\* current = potential_parent, visited = set()
StartParentWalk(self, parent) ==
    /\ walk.state = "idle"
    /\ self # parent
    /\ walk' = [NoWalk EXCEPT !.kind = "parent", !.state = "running", !.self = self,
                              !.target = parent, !.current = parent,
                              !.visits = [x \in DOMAIN items |-> 0]]
    /\ UNCHANGED <<dbVars, memberships, keyVars, req, projectMembers>>

ParentWalkStepNoVisited ==
    /\ walk.kind = "parent" /\ walk.state = "running"
    /\ LET par == ParentView(items, walk.self, [parent |-> walk.target])
           current == walk.current
       IN IF current \notin DOMAIN par
          THEN walk' = [walk EXCEPT !.state = "done", !.result = FALSE]
          ELSE IF par[current] = None
          THEN walk' = [walk EXCEPT !.state = "done", !.result = FALSE,
                                    !.visits = Visit(@, current)]
          ELSE walk' = [walk EXCEPT !.visited = @ \cup {par[current]},
                                    !.current = par[current],
                                    !.visits = Visit(@, current)]
    /\ UNCHANGED <<dbVars, keyVars, req, projectMembers>>

\* WorkItem._would_create_cycle: one evaluation of the while condition and, when
\* it holds, one pass through the body.  The loop visits `current` when it
\* reads current.parent_id.
ParentWalkStep ==
    /\ walk.kind = "parent" /\ walk.state = "running"
    /\ LET par == ParentView(items, walk.self, [parent |-> walk.target])
           current == walk.current
       IN IF current \notin DOMAIN par
          THEN walk' = [walk EXCEPT !.state = "done", !.result = FALSE]
          ELSE IF par[current] = None
          THEN walk' = [walk EXCEPT !.state = "done", !.result = FALSE,
                                    !.visits = Visit(@, current)]
          ELSE IF par[current] \in walk.visited
          THEN walk' = [walk EXCEPT !.state = "done", !.result = TRUE,
                                    !.visits = Visit(@, current)]
          ELSE walk' = [walk EXCEPT !.visited = @ \cup {par[current]},
                                    !.current = par[current],
                                    !.visits = Visit(@, current)]
    /\ UNCHANGED <<dbVars, keyVars, req, projectMembers>>

\* validate_dependency_rules reaches self._would_create_cycle(predecessor,
\* successor): visited = set(), stack = [successor]
StartDepWalk(predecessor, successor) ==
    /\ walk.state = "idle"
    /\ predecessor # successor
    /\ walk' = [NoWalk EXCEPT !.kind = "dep", !.state = "running", !.self = successor,
                              !.target = predecessor, !.stack = <<successor>>,
                              !.visits = [x \in DOMAIN items |-> 0]]
    /\ UNCHANGED <<dbVars, keyVars, req, projectMembers>>

\* WorkItemDependency._would_create_cycle: one evaluation of `while stack` and,
\* when it holds, one pass through the body.  The traversal visits `current`
\* when it takes it off the stack and does not skip it as already visited.
DepWalkStep ==
    /\ walk.kind = "dep" /\ walk.state = "running"
    /\ IF walk.stack = <<>>
       THEN walk' = [walk EXCEPT !.state = "done", !.result = FALSE]
       ELSE LET current == walk.stack[Len(walk.stack)]
                rest == SubSeq(walk.stack, 1, Len(walk.stack) - 1)
            IN IF current = walk.target
               THEN walk' = [walk EXCEPT !.state = "done", !.result = TRUE, !.stack = rest,
                                         !.current = current, !.visits = Visit(@, current)]
               ELSE IF current \in walk.visited
               THEN walk' = [walk EXCEPT !.stack = rest, !.current = current]
               ELSE walk' = [walk EXCEPT !.stack = rest \o SetToSeq(Successors(deps, current)),
                                         !.current = current,
                                         !.visited = @ \cup {current},
                                         !.visits = Visit(@, current)]
    /\ UNCHANGED <<dbVars, keyVars, req, projectMembers>>

WalkRow(id, parent) == [NewWorkItem("DEMO", id, [type |-> "task"]) EXCEPT !.parent = parent]

\* Either the parent_id column or the dependency table holds an arbitrary graph.
InitWalk ==
    /\ \E par \in [WalkIds -> WalkIds \cup {None}], edges \in SUBSET {d \in WalkIds \X WalkIds : d[1] # d[2]} :
          /\ (\A x \in WalkIds : par[x] = None) \/ edges = {}
          /\ items = [id \in WalkIds |-> WalkRow(id, par[id])]
          /\ deps = edges
    /\ memberships = {}
    /\ counter = [p \in Projects |-> WalkItems + 1]
    /\ nextId = WalkItems + 1
    /\ issued = [p \in Projects |-> [i \in WalkIds |-> i]]
    /\ last = Outcome("create", "ok")
    /\ IdleCallers
    /\ projectMembers = SeededMembers
    /\ walk = NoWalk

NextWalk ==
    \/ \E self \in WalkIds, parent \in WalkIds : StartParentWalk(self, parent)
    \/ ParentWalkStep
    \/ \E predecessor \in WalkIds, successor \in WalkIds : StartDepWalk(predecessor, successor)
    \/ DepWalkStep

\* A request runs its cycle check to the end: nothing suspends the loop.
SpecWalk == InitWalk /\ [][NextWalk]_vars /\ WF_vars(NextWalk)

\* -------------------------------------------------- relation_type in requests
\* The seeded epic and tasks; add_work_item_member is called with either the
\* default relation_type or another one the request body names.
RequestRelations == {"epic", "task"}

NextRelation ==
    \/ \E m \in RollupIds \ {1}, r \in RequestRelations : AddWorkItemMember(1, m, r)
    \/ \E m \in RollupIds \ {1}, r \in RequestRelations : RemoveWorkItemMember(1, m, r)

SpecRelation == InitRollup /\ [][NextRelation]_vars

\* --------------------------------------------------------- project routes
ProjectUsers == 1..NumUsers

OwnerCount(rows) == Cardinality({i \in 1..Len(rows) : rows[i].role = "owner"})

\* project.members.filter_by(user_id=...).first(): the index of the row, 0 for None
FirstRowOf(rows, user) ==
    IF \E i \in 1..Len(rows) : rows[i].user = user
    THEN CHOOSE i \in 1..Len(rows) :
            /\ rows[i].user = user
            /\ \A k \in 1..(i - 1) : rows[k].user # user
    ELSE 0

RemoveAt(rows, i) == SubSeq(rows, 1, i - 1) \o SubSeq(rows, i + 1, Len(rows))

\* POST /projects as current_user `user`: the project gets a fresh id and key,
\* and its creator a row with role owner.
CreateProject(user, proj) ==
    /\ proj \notin DOMAIN projectMembers
    /\ projectMembers' = Put(projectMembers, proj, <<[user |-> user, role |-> "owner"]>>)
    /\ last' = Outcome("create_project", "ok")
    /\ UNCHANGED <<items, memberships, deps, counter, nextId, issued, keyVars, req, walk>>

\* POST /projects/<id>/members as current_user `caller`
AddProjectMember(caller, proj, user, role) ==
    /\ IF proj \notin DOMAIN projectMembers
       THEN /\ last' = Outcome("add_project_member", "not_found")
            /\ UNCHANGED projectMembers
       ELSE IF ~CanUserAccess(projectMembers, proj, caller, "admin")
       THEN /\ last' = Outcome("add_project_member", "denied")
            /\ UNCHANGED projectMembers
       ELSE IF user \notin ProjectUsers
       THEN /\ last' = Outcome("add_project_member", "not_found")
            /\ UNCHANGED projectMembers
       ELSE IF FirstRowOf(projectMembers[proj], user) # 0
       THEN /\ last' = Outcome("add_project_member", "already_member")
            /\ UNCHANGED projectMembers
       ELSE /\ projectMembers' = [projectMembers EXCEPT
                                     ![proj] = Append(@, [user |-> user, role |-> role])]
            /\ last' = Outcome("add_project_member", "ok")
    /\ UNCHANGED <<items, memberships, deps, counter, nextId, issued, keyVars, req, walk>>

RemoveProjectMemberAnyOwner(caller, proj, user) ==
    /\ IF proj \notin DOMAIN projectMembers
       THEN /\ last' = Outcome("remove_project_member", "not_found")
            /\ UNCHANGED projectMembers
       ELSE IF ~CanUserAccess(projectMembers, proj, caller, "admin")
       THEN /\ last' = Outcome("remove_project_member", "denied")
            /\ UNCHANGED projectMembers
       ELSE IF FirstRowOf(projectMembers[proj], user) = 0
       THEN /\ last' = Outcome("remove_project_member", "not_found")
            /\ UNCHANGED projectMembers
       ELSE /\ projectMembers' = [projectMembers EXCEPT
                                     ![proj] = RemoveAt(@, FirstRowOf(@, user))]
            /\ last' = Outcome("remove_project_member", "ok")
    /\ UNCHANGED <<items, memberships, deps, counter, nextId, issued, keyVars, req, walk>>

\* DELETE /projects/<id>/members/<user_id> as current_user `caller`
RemoveProjectMember(caller, proj, user) ==
    /\ IF proj \notin DOMAIN projectMembers
       THEN /\ last' = Outcome("remove_project_member", "not_found")
            /\ UNCHANGED projectMembers
       ELSE IF ~CanUserAccess(projectMembers, proj, caller, "admin")
       THEN /\ last' = Outcome("remove_project_member", "denied")
            /\ UNCHANGED projectMembers
       ELSE IF FirstRowOf(projectMembers[proj], user) = 0
       THEN /\ last' = Outcome("remove_project_member", "not_found")
            /\ UNCHANGED projectMembers
       ELSE IF /\ projectMembers[proj][FirstRowOf(projectMembers[proj], user)].role = "owner"
               /\ OwnerCount(projectMembers[proj]) = 1
       THEN /\ last' = Outcome("remove_project_member", "last_owner")
            /\ UNCHANGED projectMembers
       ELSE /\ projectMembers' = [projectMembers EXCEPT
                                     ![proj] = RemoveAt(@, FirstRowOf(@, user))]
            /\ last' = Outcome("remove_project_member", "ok")
    /\ UNCHANGED <<items, memberships, deps, counter, nextId, issued, keyVars, req, walk>>

\* No project exists yet; the users create the projects and then add and
\* remove one another, as owner or as member.
InitProject ==
    /\ items = <<>>
    /\ memberships = {}
    /\ deps = {}
    /\ counter = [p \in Projects |-> 0]
    /\ nextId = 1
    /\ issued = [p \in Projects |-> <<>>]
    /\ last = Outcome("none", "ok")
    /\ IdleCallers
    /\ projectMembers = <<>>
    /\ walk = NoWalk

RequestedRoles == {"owner", "member"}

NextProject ==
    \/ \E u \in ProjectUsers, proj \in Projects : CreateProject(u, proj)
    \/ \E caller \in ProjectUsers, proj \in Projects, u \in 1..(NumUsers + 1), role \in RequestedRoles :
          AddProjectMember(caller, proj, u, role)
    \/ \E caller \in ProjectUsers, proj \in Projects, u \in ProjectUsers :
          RemoveProjectMember(caller, proj, u)

SpecProject == InitProject /\ [][NextProject]_vars

\* ================================================================ claims
\* Graph notions the claims are stated with, defined on the tables alone.
RECURSIVE Climb(_, _)
\* The item reached from x by k parent_id steps (None once the chain ends).
Climb(x, k) ==
    IF k = 0 THEN x
    ELSE LET y == Climb(x, k - 1)
         IN IF y \in DOMAIN items THEN items[y].parent ELSE None

ParentForest ==
    \A x \in DOMAIN items : \A k \in 1..Cardinality(DOMAIN items) : Climb(x, k) # x

\* Giving item x the parent p would close a cycle: x is p or is above p.
ClosesParentCycle(x, p) ==
    /\ p \in DOMAIN items
    /\ \E k \in 0..Cardinality(DOMAIN items) : Climb(p, k) = x

ParentsUnchanged ==
    /\ DOMAIN items' = DOMAIN items
    /\ \A x \in DOMAIN items : items'[x].parent = items[x].parent

RECURSIVE Downstream(_, _)
\* Everything reachable from the set S along predecessor -> successor edges.
Downstream(edges, S) ==
    LET T == S \cup {d[2] : d \in {e \in edges : e[1] \in S}}
    IN IF T = S THEN S ELSE Downstream(edges, T)

PathExists(edges, a, b) ==
    b \in Downstream(edges, {d[2] : d \in {e \in edges : e[1] = a}})

DepAcyclic == \A x \in ItemIds : ~PathExists(deps, x, x)

\* C1: whatever way concurrent next_key calls on one project interleave, the
\* numbers the finished calls returned are pairwise distinct and are exactly
\* 1 .. n for n finished calls.
C1_ConcurrentKeysDistinct ==
    LET done == {p \in Callers : kpc[p] = "done"} IN
    /\ \A p, q \in done : p # q => kret[p] # kret[q]
    /\ {kret[p] : p \in done} = 1..Cardinality(done)

\* C2: the parent_id graph is a forest in every reachable state, and an update
\* whose new parent_id would close a cycle is rejected with every parent_id
\* left as it was.
C2_CycleUpdateRejected ==
    \A id \in ItemIds : \A d \in GraphUpdateData :
        (UpdateWorkItem(id, d) /\ ClosesParentCycle(id, d.parent_id))
            => (last'.res # "ok" /\ ParentsUnchanged)

C2_ParentForest == [](ParentForest) /\ [][C2_CycleUpdateRejected]_vars

\* A two-step parent chain stands, and the update that would have put its top
\* under its bottom was just rejected by the cycle walk.
C2_Witness ==
    /\ last.op = "update" /\ last.res = "parent_cycle"
    /\ \E x, y, z \in DOMAIN items :
          /\ items[x].parent = y
          /\ items[y].parent = z
          /\ items[z].parent = None

\* C3: the dependency graph is acyclic in every reachable state, and an
\* add_dependency(p, s) with p = s or with a path from s to p is rejected with
\* the edge set left as it was.
C3_CycleDependencyRejected ==
    \A s \in ItemIds : \A p \in ItemIds :
        (AddWorkItemDependency(s, p) /\ Exists(p) /\ (p = s \/ PathExists(deps, s, p)))
            => (last'.res \in {"self_dependency", "dep_cycle"} /\ deps' = deps)

C3_DependencyDag == [](DepAcyclic) /\ [][C3_CycleDependencyRejected]_vars

\* A two-edge path stands and the edge that would have closed it into a
\* three-cycle was just rejected.
C3_Witness ==
    /\ last.op = "add_dependency" /\ last.res = "dep_cycle"
    /\ \E x, y, z \in DOMAIN items :
          /\ x # y /\ y # z /\ x # z
          /\ deps = {<<x, y>>, <<y, z>>}

\* C4: per project the numbers returned are 1, 2, 3, ... in order (so none is
\* returned twice, whatever was deleted or rejected in between); the counter row
\* is absent until the first call and afterwards holds the last number plus one;
\* every call returns the current next and raises it by exactly one, and no step
\* lowers the counter.
C4_IssuedInOrder ==
    \A p \in Projects :
        /\ \A i \in 1..Len(issued[p]) : issued[p][i] = i
        /\ counter[p] = IF issued[p] = <<>> THEN 0 ELSE Len(issued[p]) + 1

C4_CounterStep ==
    \A p \in Projects :
        /\ counter'[p] >= counter[p]
        /\ issued'[p] # issued[p] =>
              /\ issued'[p] = Append(issued[p], IF counter[p] = 0 THEN 1 ELSE counter[p])
              /\ counter'[p] = (IF counter[p] = 0 THEN 1 ELSE counter[p]) + 1

C4_KeysNeverReused == [](C4_IssuedInOrder) /\ [][C4_CounterStep]_vars

\* The fourth key goes to a successful creation although only one work item
\* exists: one earlier creation was deleted and two were rejected.
C4_Witness ==
    /\ last.op = "create" /\ last.res = "ok"
    /\ Len(issued["DEMO"]) = 4
    /\ \E x \in DOMAIN items : items[x].key = 4
    /\ Cardinality(DOMAIN items) = 1
    /\ nextId = 3

\* C5: add_membership on two existing distinct work items with no membership
\* row between them succeeds exactly when the member's type is allowed for the
\* container's type (epic: task, story, bug; feature: epic, story, task, bug;
\* story: task; bug: task; task: nothing); success adds the one row, rejection
\* adds none.
AllowedPairs ==
    {<<"epic", "task">>, <<"epic", "story">>, <<"epic", "bug">>,
     <<"feature", "epic">>, <<"feature", "story">>, <<"feature", "task">>,
     <<"feature", "bug">>, <<"story", "task">>, <<"bug", "task">>}

C5_MatrixStep ==
    \A c \in ItemIds : \A m \in ItemIds : \A r \in WorkItemType :
        (/\ Exists(c) /\ Exists(m) /\ c # m
         /\ ~\E x \in WorkItemType : <<c, m, x>> \in memberships
         /\ AddWorkItemMember(c, m, r))
            => /\ (last'.res = "ok") <=> (<<items[c].type, items[m].type>> \in AllowedPairs)
               /\ items[c].type = "task" => last'.res # "ok"
               /\ last'.res = "ok" => memberships' = memberships \cup {<<c, m, r>>}
               /\ last'.res # "ok" => memberships' = memberships

C5_ContainmentMatrix == [][C5_MatrixStep]_vars

\* A bug was just refused an epic as its member, beside a membership that was
\* accepted earlier.
C5_Witness ==
    /\ last.op = "add_member" /\ last.res = "cannot_contain"
    /\ memberships # {}
    /\ \E c, m \in DOMAIN items : items[c].type = "bug" /\ items[m].type = "epic"

\* C6: after update_rollup on a work item with rollup_mode and at least one
\* member, its status is blocked if any member is blocked; else in_progress if
\* any is in_progress; else done if all are done; else ready if any is ready;
\* else not_started.
TheContainer == CHOOSE c \in DOMAIN items : items[c].type = "epic"

MemberStatuses(c) ==
    {items[m].status : m \in {x \in DOMAIN items : \E r \in WorkItemType : <<c, x, r>> \in memberships}}

Precedence(S) ==
    CASE "blocked" \in S -> "blocked"
      [] "blocked" \notin S /\ "in_progress" \in S -> "in_progress"
      [] S = {"done"} -> "done"
      [] S \cap {"blocked", "in_progress"} = {} /\ S # {"done"} /\ "ready" \in S -> "ready"
      [] OTHER -> "not_started"

C6_RollupPrecedence ==
    (/\ last.op \in {"rollup", "add_member", "remove_member"} /\ last.res = "ok"
     /\ items[TheContainer].rollup_mode
     /\ MemberStatuses(TheContainer) # {})
        => items[TheContainer].status = Precedence(MemberStatuses(TheContainer))

\* Three members, two done and one in_progress: the recompute just run left the
\* container in_progress.
C6_Witness ==
    /\ last.op = "rollup"
    /\ items[TheContainer].rollup_mode
    /\ \E a, b, c \in DOMAIN items :
          /\ a # b /\ a # c /\ b # c
          /\ memberships = {<<TheContainer, a, "epic">>, <<TheContainer, b, "epic">>,
                            <<TheContainer, c, "epic">>}
          /\ items[a].status = "done" /\ items[b].status = "done"
          /\ items[c].status = "in_progress"
    /\ items[TheContainer].status = "in_progress"

\* C7: in every reachable state each work item has completed_at set exactly
\* when its status is done.
C7_CompletedIffDone ==
    \A x \in DOMAIN items : items[x].completed <=> items[x].status = "done"

\* C8: a create_work_item rejected by a validator commits nothing: no work item
\* is added and the project's counter row is as before the call.
C8_RejectedCreateCommitsNothing ==
    [][\A d \in GraphCreateData :
          (CreateWorkItem("DEMO", d) /\ last'.res # "ok")
              => (items' = items /\ counter' = counter)]_vars

\* C9: no interleaving of two concurrent graph-mutating requests leaves a
\* committed cycle, in the dependency graph or in the parent graph.
C9_NoCommittedCycle == ParentForest /\ DepAcyclic

\* C10: add_membership with a (container, member, relation) triple that is
\* already present ends in a conflict and leaves the membership table and every
\* work item row (the container's status, progress_pct and completed_at among
\* them) as they were.
C10_DuplicateStep ==
    \A c \in RollupIds : \A m \in RollupIds : \A r \in WorkItemType :
        (<<c, m, r>> \in memberships /\ AddWorkItemMember(c, m, r))
            => /\ last'.res = "conflict"
               /\ memberships' = memberships
               /\ items' = items

C10_DuplicateAddChangesNothing == [][C10_DuplicateStep]_vars

\* The duplicate add was just refused while the container's stored status was
\* stale: a recompute would have changed it.
C10_Witness ==
    /\ last.op = "add_member" /\ last.res = "conflict"
    /\ items[TheContainer].rollup_mode
    /\ MemberStatuses(TheContainer) # {}
    /\ items[TheContainer].status # Precedence(MemberStatuses(TheContainer))
\* C11: through create_work_item and update_work_item every stored work item
\* has story_kind set exactly when its type is story; a story without
\* story_kind and a non-story with story_kind are rejected, on create and on
\* update, with the rows left as they were; a story with story_kind = user is
\* accepted.
C11_StoryKindIffStory ==
    \A x \in DOMAIN items : (items[x].story_kind # NoKind) <=> (items[x].type = "story")

C11_CreateStep ==
    \A d \in FieldCreateData :
        CreateWorkItem("DEMO", d) =>
            LET kind == IF "story_kind" \in DOMAIN d THEN d.story_kind ELSE NoKind IN
            /\ (d.type = "story" /\ kind = NoKind) => (last'.res # "ok" /\ items' = items)
            /\ (d.type # "story" /\ kind # NoKind) => (last'.res # "ok" /\ items' = items)
            /\ (d.type = "story" /\ kind = "user") => (last'.res = "ok" /\ items' # items)

C11_UpdateStep ==
    \A id \in ItemIds : \A d \in FieldUpdateData :
        (UpdateWorkItem(id, d) /\ "story_kind" \in DOMAIN d) =>
            /\ (items[id].type = "story" /\ d.story_kind = NoKind) =>
                  (last'.res = "story_kind_required" /\ items' = items)
            /\ (items[id].type # "story" /\ d.story_kind # NoKind) =>
                  (last'.res = "story_kind_not_allowed" /\ items' = items)
            /\ (items[id].type = "story" /\ d.story_kind = "user") => last'.res = "ok"

C11_StoryKindRule ==
    [](C11_StoryKindIffStory) /\ [][C11_CreateStep /\ C11_UpdateStep]_vars

\* An update that gave a task a story_kind was just rejected, beside a stored
\* story of kind user.
C11_Witness ==
    /\ last.op = "update" /\ last.res = "story_kind_not_allowed"
    /\ \E x, y \in DOMAIN items :
          /\ items[x].type = "story" /\ items[x].story_kind = "user"
          /\ items[y].type = "task" /\ items[y].story_kind = NoKind

\* C12: create_work_item and update_work_item reject a progress_pct outside
\* [0, 100] and store nothing, so every stored progress_pct (in tenths of a
\* percent; unset allowed) lies in [0, 100].
C12_ProgressInRange ==
    \A x \in DOMAIN items :
        items[x].progress = NoProgress \/ items[x].progress \in 0..1000

\* C13: is_blocked(item) is true exactly when the item's status is blocked or
\* some dependency edge into it comes from a predecessor whose status is not
\* done (cancelled and not_started predecessors block); reading it changes no
\* table.
C13_ReadStep ==
    \A id \in BlockedIds :
        GetWorkItem(id) =>
            /\ (last'.res = "is_blocked") <=>
                  \/ items[id].status = "blocked"
                  \/ \E p \in DOMAIN items : <<p, id>> \in deps /\ items[p].status # "done"
            /\ last'.res \in {"is_blocked", "not_blocked"}
            /\ UNCHANGED <<items, memberships, deps, counter>>

C13_IsBlocked == [][C13_ReadStep]_vars

\* A task that is not itself blocked was just read as blocked: of its two
\* predecessors one is done and the other cancelled.
C13_Witness ==
    /\ last.op = "get" /\ last.res = "is_blocked"
    /\ \E x, p, q \in DOMAIN items :
          /\ p # q
          /\ deps = {<<p, x>>, <<q, x>>}
          /\ items[x].status = "not_started"
          /\ items[p].status = "done" /\ items[q].status = "cancelled"

\* C14: recomputing the rollup of a work item with rollup_mode and no members
\* leaves its status and its progress_pct exactly as they were, an unset
\* progress_pct included, whether the recompute is the rollup request or the one
\* update_work_item runs on the values the request has just assigned.
C14_Requested(id, d, key, field) ==
    IF key \in DOMAIN d THEN d[key] ELSE items[id][field]

C14_EmptyRollupStep ==
    /\ (UpdateWorkItemRollup(1) /\ items[1].rollup_mode /\ memberships = {}) =>
          /\ items'[1].status = items[1].status
          /\ items'[1].progress = items[1].progress
    /\ \A d \in ManualContainerData :
          (/\ UpdateWorkItem(1, d)
           /\ C14_Requested(1, d, "rollup_mode", "rollup_mode")
           /\ memberships = {}) =>
              /\ items'[1].status = C14_Requested(1, d, "status", "status")
              /\ items'[1].progress = C14_Requested(1, d, "progress_pct", "progress")

C14_EmptyRollupUnchanged == [][C14_EmptyRollupStep]_vars

\* C15: after delete_work_item(x) no membership row has x as container or
\* member and no dependency row has x as predecessor or successor; the
\* membership and dependency rows that do not involve x are exactly the ones
\* that remain; every other work item is still there and none of them has a
\* parent_id that is both non-null and different from the one it had.
C15_DeleteStep ==
    \A x \in DeleteIds :
        DeleteWorkItem(x) =>
            /\ \A t \in memberships' : t[1] # x /\ t[2] # x
            /\ \A d \in deps' : d[1] # x /\ d[2] # x
            /\ memberships' = {t \in memberships : t[1] # x /\ t[2] # x}
            /\ deps' = {d \in deps : d[1] # x /\ d[2] # x}
            /\ DOMAIN items' = DOMAIN items \ {x}
            /\ \A y \in DOMAIN items' : items'[y].parent \in {None, items[y].parent}

C15_DeleteCascades == [][C15_DeleteStep]_vars

\* A task was just deleted; the epic and the other task remain, with the
\* membership and the dependency edge between the two of them, and the
\* remaining task, whose parent may have been the deleted one, has none.
C15_Witness ==
    /\ last.op = "delete"
    /\ \E y \in DOMAIN items :
          /\ DOMAIN items = {1, y}
          /\ items[y].type = "task" /\ items[y].parent = None
          /\ memberships = {<<1, y, "epic">>}
          /\ deps = {<<1, y>>}

\* C16: update_work_item never changes a work item's type, key_id, id or
\* project_id, whatever keys the request carries; no step changes them, so
\* every stored row keeps the values it was created with.
C16_ImmutableStep ==
    /\ \A x \in DOMAIN items \cap DOMAIN items' :
          /\ items'[x].type = items[x].type
          /\ items'[x].key = items[x].key
          /\ items'[x].project = items[x].project
    /\ \A id \in ItemIds : \A d \in FieldUpdateData :
          UpdateWorkItem(id, d) => DOMAIN items' = DOMAIN items

C16_CreatedWith ==
    \A x \in DOMAIN items :
        /\ items[x].project = "DEMO"
        /\ items[x].type \in {d.type : d \in FieldCreateData}
        /\ items[x].key \in {issued["DEMO"][i] : i \in 1..Len(issued["DEMO"])}

C16_ImmutableFields == [](C16_CreatedWith) /\ [][C16_ImmutableStep]_vars

\* The update that carried type, key_id, id and project_id along with a
\* progress_pct of 25.0 was just applied to a task: the progress is stored, the
\* row is still a task of project DEMO.
C16_Witness ==
    /\ last.op = "update" /\ last.res = "ok"
    /\ \E x \in DOMAIN items :
          /\ items[x].progress = 250
          /\ items[x].type = "task" /\ items[x].project = "DEMO" /\ items[x].key = x

\* C17: in a fresh project DEMO, creating epic E1 (rollup_mode true), task T1
\* and task T2 gives them the keys DEMO-1, DEMO-2, DEMO-3; with T1 and T2 members
\* of E1, recomputing E1 while T1 is done and T2 in_progress gives E1 the status
\* in_progress with completed_at null, and recomputing it once T2 is done too
\* gives E1 the status done with completed_at set.
C17_Scenario ==
    /\ DOMAIN items = {1, 2, 3}
    /\ items[1].type = "epic" /\ items[1].rollup_mode
    /\ items[2].type = "task" /\ items[3].type = "task"
    /\ memberships = {<<1, 2, "epic">>, <<1, 3, "epic">>}

C17_Keys ==
    (Len(issued["DEMO"]) = 3 /\ DOMAIN items = {1, 2, 3}) =>
        \A x \in {1, 2, 3} : items[x].project = "DEMO" /\ items[x].key = x

C17_RecomputeStep ==
    (UpdateWorkItemRollup(1) /\ C17_Scenario /\ items[2].status = "done") =>
        /\ items[3].status = "in_progress" =>
              (items'[1].status = "in_progress" /\ ~items'[1].completed)
        /\ items[3].status = "done" =>
              (items'[1].status = "done" /\ items'[1].completed)

C17_EndToEnd == [](C17_Keys) /\ [][C17_RecomputeStep]_vars

\* The end of the trace: E1, T1, T2 carry keys 1, 2, 3, both tasks are done
\* members of E1, and the recompute just run left E1 done and completed.
C17_Witness ==
    /\ C17_Scenario
    /\ \A x \in {1, 2, 3} : items[x].key = x
    /\ last.op = "rollup"
    /\ items[2].status = "done" /\ items[3].status = "done"
    /\ items[2].completed /\ items[3].completed
    /\ items[1].status = "done" /\ items[1].completed

\* C18: no two stored work items share a key_id, also when create_work_item
\* calls on one project run concurrently: of two creations that obtained the
\* same key at most one is committed, and the other ends in a conflict.
C18_KeysUnique ==
    \A x, y \in DOMAIN items :
        (x # y) => (items[x].project # items[y].project \/ items[x].key # items[y].key)

C18_SameKeyOneWins ==
    \A p, q \in Callers :
        (p # q /\ kret[p] # 0 /\ kret[p] = kret[q] /\ kpc[p] = "created") =>
            kpc[q] \in {"commit", "done", "conflict"}

C18_KeyIdUnique == C18_KeysUnique /\ C18_SameKeyOneWins

\* Two creations obtained the same key: one is committed, the other ended in a
\* conflict, and the key is stored once.
C18_Witness ==
    \E p, q \in Callers :
        /\ kret[p] = kret[q] /\ kpc[p] = "created" /\ kpc[q] = "conflict"
        /\ Cardinality({x \in DOMAIN items : items[x].key = kret[p]}) = 1

\* C19: every relationship links work items of one project: a non-null
\* parent_id, a membership row and a dependency row each join two work items
\* with the same project_id (a request that would join two projects having been
\* rejected).
C19_SameProject ==
    /\ \A x \in DOMAIN items :
          (items[x].parent # None /\ items[x].parent \in DOMAIN items) =>
              items[items[x].parent].project = items[x].project
    /\ \A t \in memberships : items[t[1]].project = items[t[2]].project
    /\ \A d \in deps : items[d[1]].project = items[d[2]].project

\* C20: update_rollup on a work item whose rollup_mode is false changes
\* nothing: after the rollup request, and after the recompute that adding or
\* removing a member runs, the container's status, progress_pct and
\* completed_at are what they were, whatever its members' statuses are.
C20_RollupFieldsUnchanged ==
    /\ items'[1].status = items[1].status
    /\ items'[1].progress = items[1].progress
    /\ items'[1].completed = items[1].completed

C20_ManualStep ==
    ~items[1].rollup_mode =>
        /\ UpdateWorkItemRollup(1) => C20_RollupFieldsUnchanged
        /\ \A m \in ManualIds \ {1} :
              /\ AddWorkItemMember(1, m, "epic") => C20_RollupFieldsUnchanged
              /\ RemoveWorkItemMember(1, m, "epic") => C20_RollupFieldsUnchanged

C20_ManualModeNoOp == [][C20_ManualStep]_vars

\* The rollup request was just handled for an epic without rollup_mode whose
\* two members are both done while its own status, set by hand, is ready.
C20_Witness ==
    /\ last.op = "rollup"
    /\ ~items[1].rollup_mode
    /\ items[1].status = "ready" /\ items[1].progress = 400
    /\ memberships = {<<1, m, "epic">> : m \in ManualIds \ {1}}
    /\ \A m \in ManualIds \ {1} : items[m].status = "done"

\* C21: for a rollup-mode work item with n >= 1 members, update_rollup sets
\* progress_pct to the mean of the members' progress_pct, an unset value counted
\* as 0, rounded to one decimal place (the stored tenth is within half a tenth
\* of the mean); with member values in [0, 100] the result is in [0, 100].
RECURSIVE C21_Total(_)
C21_Total(S) ==
    IF S = {} THEN 0
    ELSE LET m == CHOOSE x \in S : TRUE
         IN (IF items[m].progress = NoProgress THEN 0 ELSE items[m].progress)
            + C21_Total(S \ {m})

C21_MembersOf(c) == {m \in DOMAIN items : \E r \in WorkItemType : <<c, m, r>> \in memberships}

C21_Distance(a, b) == IF a >= b THEN a - b ELSE b - a

C21_MeanStep ==
    (UpdateWorkItemRollup(1) /\ items[1].rollup_mode /\ C21_MembersOf(1) # {}) =>
        LET n == Cardinality(C21_MembersOf(1))
            total == C21_Total(C21_MembersOf(1))
        IN /\ 2 * C21_Distance(n * items'[1].progress, total) <= n
           /\ items'[1].progress \in 0..1000

C21_ProgressMean == [][C21_MeanStep]_vars

\* Members at 100.0, 25.0 and unset: the recompute just run stored 41.7, the
\* mean 41.66.. rounded up.
C21_Witness ==
    /\ last.op = "rollup"
    /\ \E a, b, c \in DOMAIN items :
          /\ C21_MembersOf(1) = {a, b, c}
          /\ items[a].progress = 1000 /\ items[b].progress = 250
          /\ items[c].progress = NoProgress
    /\ items[1].progress = 417

\* C22: no work item of a project is created, updated, linked (membership,
\* dependency) or rolled up by a user who has no row in the project or whose
\* role ranks below member, and none is deleted by a user whose role ranks below
\* admin (viewer < member < admin < owner); a denied request changes no state.
C22_Rank(role) ==
    CASE role = "viewer" -> 1 [] role = "member" -> 2 [] role = "admin" -> 3
      [] role = "owner" -> 4 [] OTHER -> 0

C22_Holds(u, proj, role) ==
    \E i \in 1..Len(projectMembers[proj]) :
        /\ projectMembers[proj][i].user = u
        /\ C22_Rank(projectMembers[proj][i].role) >= C22_Rank(role)

\* A request of user u is what this step was.
C22_RequestBy(u) ==
    \/ \E proj \in Projects, d \in AccessCreateData : AsCreateWorkItem(u, proj, d)
    \/ \E id \in ItemIds, d \in AccessUpdateData : AsUpdateWorkItem(u, id, d)
    \/ \E id \in ItemIds : AsDeleteWorkItem(u, id)
    \/ \E c \in ItemIds, m \in ItemIds : AsAddWorkItemMember(u, c, m, DefaultRelation(c))
    \/ \E s \in ItemIds, p \in ItemIds : AsAddWorkItemDependency(u, s, p)
    \/ \E id \in ItemIds : AsUpdateWorkItemRollup(u, id)

\* The project of a work item, before or after the step.
C22_ProjectOf(x) == IF x \in DOMAIN items THEN items[x].project ELSE items'[x].project

C22_Written ==
    {x \in DOMAIN items \cup DOMAIN items' :
        x \notin DOMAIN items \/ x \notin DOMAIN items' \/ items'[x] # items[x]}

C22_Linked ==
    {t[1] : t \in memberships' \ memberships} \cup {t[2] : t \in memberships' \ memberships}
    \cup {d[1] : d \in deps' \ deps} \cup {d[2] : d \in deps' \ deps}

C22_Step ==
    \A u \in AccessUsers :
        C22_RequestBy(u) =>
            /\ \A x \in C22_Written \cup C22_Linked : C22_Holds(u, C22_ProjectOf(x), "member")
            /\ \A x \in DOMAIN items \ DOMAIN items' : C22_Holds(u, items[x].project, "admin")
            /\ last'.res = "denied" =>
                  UNCHANGED <<items, memberships, deps, counter, projectMembers, walk>>

C22_RoleEnforced == [][C22_Step]_vars

\* C23: every work item with a non-null parent_id is a task whose parent
\* exists, is a task and is another item; create_work_item and
\* update_work_item reject a parent_id when the item or the parent is not a
\* task, when the parent does not exist and when it is the item itself, with
\* the rows left as they were.
C23_TaskParents ==
    \A x \in DOMAIN items :
        items[x].parent # None =>
            /\ items[x].type = "task"
            /\ items[x].parent \in DOMAIN items
            /\ items[items[x].parent].type = "task"
            /\ items[x].parent # x

C23_BadParent(type, self, p) ==
    /\ p # None
    /\ \/ p \notin DOMAIN items
       \/ type # "task"
       \/ items[p].type # "task"
       \/ p = self

C23_RejectStep ==
    /\ \A d \in GraphCreateData :
          (/\ CreateWorkItem("DEMO", d)
           /\ "parent_id" \in DOMAIN d
           /\ C23_BadParent(d.type, None, d.parent_id))
              => (last'.res \in {"parent_not_found", "not_tasks"} /\ items' = items)
    /\ \A id \in ItemIds : \A d \in GraphUpdateData :
          (UpdateWorkItem(id, d) /\ C23_BadParent(items[id].type, id, d.parent_id))
              => (last'.res \in {"parent_not_found", "not_tasks", "self_parent"}
                  /\ items' = items)

C23_ParentTaskOnly == [](C23_TaskParents) /\ [][C23_RejectStep]_vars

\* An update that named a story as the parent of a task was just rejected, while
\* another task has a task parent.
C23_Witness ==
    /\ last.op = "update" /\ last.res = "not_tasks"
    /\ \E x, y, z \in DOMAIN items :
          /\ items[x].type = "task" /\ items[x].parent = y /\ items[y].type = "task"
          /\ items[z].type = "story"

\* C24: after a successful add_membership or remove_membership on a container
\* with rollup_mode, the container's status and progress_pct are the rollup over
\* the member set as it is after the mutation: the added member counts, the
\* removed one does not (with no member left, they stay as they were).
C24_MembersAfter(c) ==
    {m \in DOMAIN items : \E r \in WorkItemType : <<c, m, r>> \in memberships'}

RECURSIVE C24_Total(_)
C24_Total(S) ==
    IF S = {} THEN 0
    ELSE LET m == CHOOSE x \in S : TRUE
         IN (IF items[m].progress = NoProgress THEN 0 ELSE items[m].progress)
            + C24_Total(S \ {m})

C24_IsRollupOf(c, M) ==
    IF M = {}
    THEN items'[c].status = items[c].status /\ items'[c].progress = items[c].progress
    ELSE /\ items'[c].status = Precedence({items[m].status : m \in M})
         /\ LET gap == Cardinality(M) * items'[c].progress - C24_Total(M)
            IN 2 * gap <= Cardinality(M) /\ -2 * gap <= Cardinality(M)

C24_MutationStep ==
    \A m \in ManualIds \ {1} :
        (/\ AddWorkItemMember(1, m, "epic") \/ RemoveWorkItemMember(1, m, "epic")
         /\ last'.res = "ok"
         /\ items[1].rollup_mode)
            => /\ (last'.op = "add_member") => m \in C24_MembersAfter(1)
               /\ (last'.op = "remove_member") => m \notin C24_MembersAfter(1)
               /\ C24_IsRollupOf(1, C24_MembersAfter(1))

C24_RollupAfterMutation == [][C24_MutationStep]_vars

\* A done member was just removed from the rollup-mode epic: the one member
\* left is in_progress at 0.0, and so is the epic.
C24_Witness ==
    /\ last.op = "remove_member" /\ last.res = "ok"
    /\ items[1].rollup_mode
    /\ \E m, x \in DOMAIN items :
          /\ memberships = {<<1, m, "epic">>}
          /\ items[m].status = "in_progress" /\ items[m].progress = 0
          /\ x \notin {1, m} /\ items[x].status = "done" /\ items[x].progress = 1000
    /\ items[1].status = "in_progress" /\ items[1].progress = 0

\* C25: after a successful update_work_item on an item whose rollup_mode is
\* true after the request and that has at least one member, its status and
\* progress_pct are the rollup over its members, whatever status or progress_pct
\* the request supplied, also when the same request switches rollup_mode on.
C25_Members ==
    {m \in DOMAIN items : \E r \in WorkItemType : <<1, m, r>> \in memberships}

C25_UpdateStep ==
    \A d \in ManualContainerData :
        (/\ UpdateWorkItem(1, d)
         /\ last'.res = "ok"
         /\ items'[1].rollup_mode
         /\ C25_Members # {})
            => LET M == C25_Members
                   gap == Cardinality(M) * items'[1].progress - C24_Total(M)
               IN /\ items'[1].status = Precedence(MemberStatuses(1))
                  /\ 2 * gap <= Cardinality(M) /\ -2 * gap <= Cardinality(M)

C26_OnlyRow(id) == \A x \in DOMAIN items \ {id} : x \in DOMAIN items' /\ items'[x] = items[x]

C26_Step ==
    /\ \A id \in NestedIds \ {1}, d \in NestedUpdateData : UpdateWorkItem(id, d) => C26_OnlyRow(id)
    /\ \A c \in {1, 2} : UpdateWorkItemRollup(c) => C26_OnlyRow(c)
    /\ \A c \in {1, 2} : \A m \in NestedIds \ {1, c} :
          (AddWorkItemMember(c, m, DefaultRelation(c))
              \/ RemoveWorkItemMember(c, m, DefaultRelation(c))) => C26_OnlyRow(c)

C26_NoCascade == [][C26_Step]_vars

\* The feature contains the epic, the epic contains a done task, the epic's
\* rollup was just recomputed to done, and the feature still shows not_started.
C26_Witness ==
    /\ last.op = "rollup" /\ last.res = "ok"
    /\ <<1, 2, "feature">> \in memberships
    /\ <<2, 3, "epic">> \in memberships
    /\ items[3].status = "done"
    /\ items[2].status = "done" /\ items[2].progress = 1000
    /\ items[1].rollup_mode /\ items[1].status = "not_started" /\ items[1].progress = 0

\* C27 (as stated): both cycle checks terminate on every finite graph, stored
\* parent or dependency cycles included, and each visits every work item at most
\* once before returning.
C27_VisitedOnce == \A x \in DOMAIN walk.visits : walk.visits[x] <= 1

C27_AsStated == <>(walk.state = "done") /\ [](C27_VisitedOnce)

\* C27 (amended): both cycle checks terminate on every finite graph, stored
\* parent or dependency cycles included; the dependency traversal visits every
\* work item at most once, and the parent-chain walk visits every work item at
\* most once except the one it starts from, which it visits at most twice.
C27_VisitBound ==
    \A x \in DOMAIN walk.visits :
        walk.visits[x] <= (IF walk.kind = "parent" /\ x = walk.target THEN 2 ELSE 1)

C27_Terminates == <>(walk.state = "done") /\ [](C27_VisitBound)

\* The parent-chain walk has returned True after standing twice on the work
\* item it started from: the chain from it leads back to it.
C27_Witness ==
    /\ walk.kind = "parent" /\ walk.state = "done" /\ walk.result
    /\ walk.visits[walk.target] = 2
    /\ \E x \in DOMAIN walk.visits : x # walk.target /\ walk.visits[x] = 1

\* C28: after a successful remove_membership(container, member) no membership
\* row with that container and member remains, under any relation value, and
\* get_members(container) does not return member; when no such row exists the
\* call reports not found and changes nothing.
C28_RemoveStep ==
    \A m \in RollupIds \ {1}, r \in RequestRelations :
        RemoveWorkItemMember(1, m, r) =>
            IF last'.res = "ok"
            THEN /\ \A x \in WorkItemType : <<1, m, x>> \notin memberships'
                 /\ m \notin GetMembers(items', memberships', 1)
            ELSE /\ last'.res = "not_found"
                 /\ \A x \in WorkItemType : <<1, m, x>> \notin memberships
                 /\ UNCHANGED <<items, memberships, deps>>

C28_MemberRemoved == [][C28_RemoveStep]_vars

\* C29: recompute_rollup is idempotent: a second recompute_rollup on the same
\* work item, with no other request in between, leaves its status, progress_pct
\* and completed_at as the first call left them, whatever the membership set
\* and the member statuses are.
C29_SecondCall ==
    (/\ last.op = "rollup" /\ last.res = "ok"
     /\ UpdateWorkItemRollup(1))
        => /\ items'[1].status = items[1].status
           /\ items'[1].progress = items[1].progress
           /\ items'[1].completed = items[1].completed

C29_RecomputeIdempotent == [][C29_SecondCall]_vars

\* The epic's rollup was just recomputed over three done members: it is done
\* and completed, and that is the state a second recompute starts from.
C29_Witness ==
    /\ last.op = "rollup" /\ last.res = "ok"
    /\ Cardinality(MemberStatuses(1)) = 1
    /\ \A m \in RollupIds \ {1} : <<1, m, "epic">> \in memberships /\ items[m].status = "done"
    /\ items[1].status = "done" /\ items[1].completed

\* C30: under any sequence of create_project, add_project_member and
\* remove_project_member, every project has at least one member with role owner
\* and at most one membership row per user; removing the only owner is rejected,
\* adding a user who is already a member is rejected, and both rejections leave
\* the member set unchanged.
C30_OwnerAndUnique ==
    \A proj \in DOMAIN projectMembers :
        LET rows == projectMembers[proj]
        IN /\ \E i \in 1..Len(rows) : rows[i].role = "owner"
           /\ \A i, j \in 1..Len(rows) : rows[i].user = rows[j].user => i = j

C30_OnlyOwner(proj, user) ==
    /\ proj \in DOMAIN projectMembers
    /\ \E i \in 1..Len(projectMembers[proj]) :
          /\ projectMembers[proj][i] = [user |-> user, role |-> "owner"]
          /\ \A j \in 1..Len(projectMembers[proj]) :
                projectMembers[proj][j].role = "owner" => j = i

C30_AlreadyMember(proj, user) ==
    /\ proj \in DOMAIN projectMembers
    /\ \E i \in 1..Len(projectMembers[proj]) : projectMembers[proj][i].user = user

\* A request that answers ok or changes a member set is neither a removal of
\* the project's only owner nor an addition of a user who is already a member.
C30_RejectStep ==
    (last'.res = "ok" \/ projectMembers' # projectMembers) =>
        /\ \A caller \in ProjectUsers, proj \in Projects, u \in ProjectUsers :
              ~(C30_OnlyOwner(proj, u) /\ RemoveProjectMember(caller, proj, u))
        /\ \A caller \in ProjectUsers, proj \in Projects, u \in ProjectUsers, role \in RequestedRoles :
              ~(C30_AlreadyMember(proj, u) /\ AddProjectMember(caller, proj, u, role))

C30_ProjectMembers == [](C30_OwnerAndUnique) /\ [][C30_RejectStep]_vars

\* The removal of a project's only owner was just refused while the project
\* has a second member, who is not an owner.
C30_Witness ==
    /\ last = Outcome("remove_project_member", "last_owner")
    /\ \E proj \in DOMAIN projectMembers :
          /\ Len(projectMembers[proj]) = 2
          /\ OwnerCount(projectMembers[proj]) = 1
====
